---- MODULE Spec2Model ----
(***************************************************************************)
(* Model of ui/mitre_tags/mitreScraperMBC.py: the SVG chunker, the field   *)
(* extractors, the tree-building traversal loop, the normalizer and the    *)
(* writer.  A Python str is a sequence of one-character strings; a Python  *)
(* dict is a sequence of <<key, value>> pairs in insertion order.          *)
(***************************************************************************)
EXTENDS Integers, Sequences, FiniteSets, TLC

VARIABLES
    pc,          \* position of the script
    rawData,     \* the document handed to cutByPhrases (line 65)
    text,        \* cutByPhrases' loop variable `text`
    cutResults,  \* cutByPhrases' accumulator
    cutData,     \* the chunk sequence the traversal loop iterates (line 66)
    i,           \* number of chunks of cutData already consumed by the loop
    allResults,  \* dict tactic -> group
    tacticGroup, \* dict id -> name, the group being accumulated
    outFile,     \* the lines written to MBCTagsList.tags by this run
    error        \* name of the uncaught exception that ended the run, or "none"

vars == <<pc, rawData, text, cutResults, cutData, i, allResults, tacticGroup,
          outFile, error>>

(***************************************************************************)
(* Bounds of the model.                                                    *)
(***************************************************************************)
MaxTok == 5
MaxChunks == 4
MaxNormChunks == 4
MaxExtractChunks == 2

(***************************************************************************)
(* Python str primitives.                                                  *)
(***************************************************************************)
Min(a, b) == IF a < b THEN a ELSE b
Max(a, b) == IF a > b THEN a ELSE b

\* whether phrase occurs in s at 1-based position k
OccursAt(s, phrase, k) ==
    /\ k + Len(phrase) - 1 <= Len(s)
    /\ \A j \in 1..Len(phrase) : s[k + j - 1] = phrase[j]

RECURSIVE FindFrom(_, _, _, _)
\* the first occurrence of a non-empty phrase at a position in k..last
FindFrom(s, phrase, k, last) ==
    IF k > last THEN -1
    ELSE IF s[k] = phrase[1] /\ \A j \in 2..Len(phrase) : s[k + j - 1] = phrase[j]
         THEN k - 1
         ELSE FindFrom(s, phrase, k + 1, last)

\* str.find: 0-based index of the first occurrence of phrase in s, or -1
Find(s, phrase) ==
    IF phrase = <<>> THEN 0 ELSE FindFrom(s, phrase, 1, Len(s) - Len(phrase) + 1)

\* str.__contains__
Contains(s, phrase) == Find(s, phrase) # -1

\* s[a:b] with Python's treatment of negative and out-of-range indices
Slice(s, a, b) ==
    LET norm(x) == IF x < 0 THEN Max(x + Len(s), 0) ELSE Min(x, Len(s))
    IN  SubSeq(s, norm(a) + 1, norm(b))

\* s[a:]
SliceFrom(s, a) == Slice(s, a, Len(s))

RECURSIVE Split(_, _)
\* str.split(sep) for a one-character separator
Split(s, sep) ==
    LET k == Find(s, sep)
    IN  IF k = -1 THEN <<s>>
        ELSE <<Slice(s, 0, k)>> \o Split(SliceFrom(s, k + Len(sep)), sep)

Whitespace == {" ", "\n", "\t", "\r"}

RECURSIVE LStrip(_)
LStrip(s) == IF s # <<>> /\ Head(s) \in Whitespace THEN LStrip(Tail(s)) ELSE s

RECURSIVE RStrip(_)
RStrip(s) ==
    IF s # <<>> /\ s[Len(s)] \in Whitespace
    THEN RStrip(SubSeq(s, 1, Len(s) - 1)) ELSE s

\* str.strip()
Strip(s) == RStrip(LStrip(s))

RECURSIVE Replace(_, _, _)
\* str.replace(old, new): every non-overlapping occurrence, left to right
Replace(s, old, new) ==
    LET k == Find(s, old)
    IN  IF k = -1 THEN s
        ELSE Slice(s, 0, k) \o new \o Replace(SliceFrom(s, k + Len(old)), old, new)

(***************************************************************************)
(* Literals of the script.                                                 *)
(***************************************************************************)
GOpen     == <<"<", "g">>
GClose    == <<"<", "/", "g", ">">>
NL        == <<"\n">>
GtLt      == <<">", "<">>
GtNlLt    == <<">", "\n", "<">>

(***************************************************************************)
(* cutByPhrases (lines 8-18), one loop iteration per step.                 *)
(***************************************************************************)
\* the value of `text` after one iteration that resumes after the start marker
CutRestAfterStart(t, phrase1, phrase2) ==
    SliceFrom(t, Find(t, phrase1) + Len(phrase1))

\* line 11: the loop condition
CutCond(t, phrase1, phrase2) == Contains(t, phrase1) /\ Contains(t, phrase2)

\* lines 12-14: the chunk cut by one iteration
CutChunk(t, phrase1, phrase2) ==
    Slice(t, Find(t, phrase1) + Len(phrase1), Find(t, phrase2))

\* line 16: the text left after one iteration
CutRest(t, phrase1, phrase2) ==
    SliceFrom(t, Find(t, phrase2) + Len(phrase2))

\* the input alphabet of the chunker: the two markers and single characters
Token == {GOpen, GClose, <<"a">>, <<"<">>, <<">">>, <<"g">>}

RECURSIVE Concat(_)
\* the concatenation of a sequence of strings
Concat(ss) == IF ss = <<>> THEN <<>> ELSE Head(ss) \o Concat(Tail(ss))

Documents == {Concat(ts) : ts \in UNION {[1..n -> Token] : n \in 0..MaxTok}}

InitWith(docs) ==
    /\ pc = "fetched"
    /\ rawData \in docs
    /\ text = <<>>
    /\ cutResults = <<>>
    /\ cutData = <<>>
    /\ i = 0
    /\ allResults = <<>>
    /\ tacticGroup = <<>>
    /\ outFile = <<>>
    /\ error = "none"

ChunkInit == InitWith(Documents)

\* line 65 and the entry of cutByPhrases (lines 9-10)
Preprocess ==
    /\ pc = "fetched"
    /\ rawData' = Replace(rawData, GtLt, GtNlLt)
    /\ text' = rawData'
    /\ cutResults' = <<>>
    /\ pc' = "cut"
    /\ UNCHANGED <<cutData, i, allResults, tacticGroup, outFile, error>>

\* lines 11-16: one iteration of the while loop
CutStep ==
    /\ pc = "cut"
    /\ CutCond(text, GOpen, GClose)
    /\ cutResults' = Append(cutResults, CutChunk(text, GOpen, GClose))
    /\ text' = CutRest(text, GOpen, GClose)
    /\ UNCHANGED <<pc, rawData, cutData, i, allResults, tacticGroup, outFile, error>>

\* lines 11, 18, 66 and 68-69: loop exit, return cutResults, empty dicts
CutReturn ==
    /\ pc = "cut"
    /\ ~CutCond(text, GOpen, GClose)
    /\ cutData' = cutResults
    /\ i' = 0
    /\ allResults' = <<>>
    /\ tacticGroup' = <<>>
    /\ pc' = "loop"
    /\ UNCHANGED <<rawData, text, cutResults, outFile, error>>

ChunkNext == Preprocess \/ CutStep \/ CutReturn

ChunkSpec == ChunkInit /\ [][ChunkNext]_vars

(***************************************************************************)
(* Claims about the chunker, checked under ChunkSpec.                      *)
(***************************************************************************)
RECURSIVE MatchedChunks(_)
\* the chunks of t by the matched-marker rule: the text between a start
\* marker and the next end marker after it, resuming after that end marker
MatchedChunks(t) ==
    LET k1 == Find(t, GOpen)
    IN  IF k1 = -1 THEN <<>>
        ELSE LET rest == SliceFrom(t, k1 + Len(GOpen))
                 k2   == Find(rest, GClose)
             IN  IF k2 = -1 THEN <<>>
                 ELSE <<Slice(rest, 0, k2)>>
                          \o MatchedChunks(SliceFrom(rest, k2 + Len(GClose)))

\* C3: every chunk cutByPhrases returns is the text strictly between a start
\* marker "<g" and the next end marker "</g>" after it, left to right, and
\* no chunk comes from an unmatched marker.
C3_ChunksAreMatchedPairs ==
    pc = "loop" => cutData = MatchedChunks(rawData)

\* number of occurrences of phrase in s
CountOcc(s, phrase) == Cardinality({k \in 1..Len(s) : OccursAt(s, phrase, k)})

\* C10 (state part): every iteration consumes exactly one "</g>" and at least
\* Len("</g>") characters, the loop can always take its next step, and the
\* chunks returned are at most the occurrences of "</g>" in the input.
C10_Variant ==
    /\ pc = "cut" =>
          /\ Len(cutResults) + CountOcc(text, GClose) = CountOcc(rawData, GClose)
          /\ Len(text) + Len(GClose) * Len(cutResults) <= Len(rawData)
          /\ ENABLED ChunkNext
    /\ pc = "loop" => Len(cutData) <= CountOcc(rawData, GClose)

\* C10 (step part): each loop iteration strictly shortens the remaining text.
C10_StepShortens ==
    (pc = "cut" /\ pc' = "cut") => Len(text') < Len(text)

\* C10: cutByPhrases terminates on every input: each iteration strictly
\* shortens the remaining text, the loop runs at most once per occurrence of
\* "</g>", and it returns at most that many chunks.
C10_Terminates == []C10_Variant /\ [][C10_StepShortens]_vars

\* C10 witness: two or more chunks were cut from a text whose first end
\* marker precedes its first start marker
C10_Witness ==
    /\ pc = "loop"
    /\ Len(cutData) >= 2
    /\ Find(rawData, GClose) # -1
    /\ Find(rawData, GClose) < Find(rawData, GOpen)

(***************************************************************************)
(* Python dict: <<key, value>> pairs in insertion order.                   *)
(***************************************************************************)
DictHas(d, key) == \E k \in 1..Len(d) : d[k][1] = key

\* d[key] for a key that is present
DictGet(d, key) == d[CHOOSE k \in 1..Len(d) : d[k][1] = key][2]

\* d[key] = value: an existing key keeps its place, a new key goes last
DictSet(d, key, value) ==
    IF DictHas(d, key)
    THEN [k \in 1..Len(d) |-> IF d[k][1] = key THEN <<key, value>> ELSE d[k]]
    ELSE Append(d, <<key, value>>)

(***************************************************************************)
(* More literals of the script.                                            *)
(***************************************************************************)
Technique      == <<"t", "e", "c", "h", "n", "i", "q", "u", "e">>
TacticLabel    == <<"t", "a", "c", "t", "i", "c", "-", "l", "a", "b", "e", "l">>
TspanOpen      == <<"<", "t", "s", "p", "a", "n">>
Tspan          == <<"t", "s", "p", "a", "n">>
TspanClose     == <<"<", "/", "t", "s", "p", "a", "n">>
Gt             == <<">">>
Colon          == <<":">>
Dot            == <<".">>
Space          == <<" ">>
ColonColon     == <<":", ":">>
MicroObjective == <<" ", "M", "i", "c", "r", "o", "-", "o", "b", "j", "e", "c",
                    "t", "i", "v", "e">>

(***************************************************************************)
(* Field extractors (lines 20-49).  A call either returns a value or       *)
(* raises; Raise/Return wrap the two outcomes.                             *)
(***************************************************************************)
Raise(exc)  == [raised |-> TRUE, exc |-> exc]
Return(val) == [raised |-> FALSE, val |-> val]

\* lines 20-21
extractPattern(s, phrase1, phrase2) ==
    Slice(s, Find(s, phrase1) + Len(phrase1), Find(s, phrase2))

\* lines 23-28
extractByKeyword(inputList, keyword) ==
    SelectSeq(inputList, LAMBDA line : Contains(line, keyword))

\* lines 31-36: the cleaned data lines of a chunk
cleanDataLines(chunk) ==
    LET dataLines == extractByKeyword(Split(chunk, NL), TspanOpen)
    IN  [k \in 1..Len(dataLines) |-> extractPattern(dataLines[k], Gt, TspanClose)]

RECURSIVE joinLines(_)
\* lines 38-40 for a non-empty list: the fragments joined by single spaces
joinLines(dataLines) ==
    IF Len(dataLines) = 1 THEN dataLines[1]
    ELSE joinLines(SubSeq(dataLines, 1, Len(dataLines) - 1))
             \o Space \o dataLines[Len(dataLines)]

\* an extractor that returns an empty field where a part is missing
extractTechniqueLenient(chunk) ==
    LET dataLines == cleanDataLines(chunk)
    IN  IF dataLines = <<>> THEN Return(<< <<>>, <<>> >>)
        ELSE LET techniqueSplit == Split(joinLines(dataLines), Colon)
             IN  IF Len(techniqueSplit) < 2
                 THEN Return(<<Strip(techniqueSplit[1]), <<>> >>)
                 ELSE Return(<<Strip(techniqueSplit[1]), Strip(techniqueSplit[2])>>)

\* lines 30-43
extractTechnique(chunk) ==
    LET dataLines == cleanDataLines(chunk)
    IN  IF dataLines = <<>> THEN Raise("IndexError")            \* line 38
        ELSE LET techniqueSplit == Split(joinLines(dataLines), Colon)
             IN  IF Len(techniqueSplit) < 2 THEN Raise("IndexError")  \* line 43
                 ELSE Return(<<Strip(techniqueSplit[1]), Strip(techniqueSplit[2])>>)

\* lines 45-49: None when no line contains "tspan"
extractTactic(chunk) ==
    LET hits == extractByKeyword(Split(chunk, NL), Tspan)
    IN  IF hits = <<>> THEN [none |-> TRUE]
        ELSE [none |-> FALSE, val |-> extractPattern(hits[1], Gt, TspanClose)]

\* line 77
stripMicroObjective(tacticName) == Replace(tacticName, MicroObjective, <<>>)

\* lines 71 and 75: the branch the traversal loop takes for a chunk
Classify(chunk) ==
    IF Contains(chunk, Technique) THEN "technique"
    ELSE IF Contains(chunk, TacticLabel) THEN "tactic-label"
    ELSE "irrelevant"

(***************************************************************************)
(* postProcessing (lines 51-61): the dict is mutated in place while its    *)
(* keys are visited in insertion order.                                    *)
(***************************************************************************)
\* the portion of key before its last "."
parentKeyLastDot(key) ==
    LET parts == Split(key, Dot)
    IN  SubSeq(key, 1, Len(key) - Len(parts[Len(parts)]) - 1)

\* line 56
parentKeyOf(key) == Split(key, Dot)[1]

\* a lookup that yields the empty string for an absent parent
lookupParentOrEmpty(group, parentKey) ==
    IF DictHas(group, parentKey) THEN Return(DictGet(group, parentKey))
    ELSE Return(<<>>)

\* line 57: group[parentKey], a KeyError when the parent is absent
lookupParent(group, parentKey) ==
    IF DictHas(group, parentKey) THEN Return(DictGet(group, parentKey))
    ELSE Raise("KeyError")

RECURSIVE postGroup(_, _)
\* lines 54-60 from the k-th key of the group on; the group read at each key
\* is the one already rewritten by the keys before it
postGroup(group, k) ==
    IF k > Len(group) THEN Return(group)
    ELSE LET key == group[k][1]
         IN  IF Contains(key, Dot)
             THEN LET parent == lookupParent(group, parentKeyOf(key))
                  IN  IF parent.raised THEN parent
                      ELSE LET parentValue == parent.val
                               oldValue    == DictGet(group, key)
                               newValue    == parentValue \o ColonColon \o oldValue
                           IN  postGroup(DictSet(group, key, newValue), k + 1)
             ELSE postGroup(group, k + 1)

RECURSIVE postTactics(_, _)
\* lines 52-53 from the k-th tactic on
postTactics(results, k) ==
    IF k > Len(results) THEN Return(results)
    ELSE LET r == postGroup(results[k][2], 1)
         IN  IF r.raised THEN r
             ELSE postTactics(DictSet(results, results[k][1], r.val), k + 1)

\* lines 51-61
postProcessing(results) == postTactics(results, 1)

(***************************************************************************)
(* Writer (lines 85-88).                                                   *)
(***************************************************************************)
\* line 88
tagLine(tactic, name, key) == tactic \o ColonColon \o name \o Space \o key \o NL

RECURSIVE writeLines(_)
\* lines 85-88: one line per tactic and key, in dict order
writeLines(results) ==
    IF results = <<>> THEN <<>>
    ELSE LET tactic == Head(results)[1]
             group  == Head(results)[2]
         IN  [k \in 1..Len(group) |-> tagLine(tactic, group[k][2], group[k][1])]
                 \o writeLines(Tail(results))

(***************************************************************************)
(* The script from line 64 on.                                             *)
(***************************************************************************)
\* a commit that adds the group's entries to the group already stored
commitTacticMerged(results, tacticName, group) ==
    IF DictHas(results, tacticName)
    THEN DictSet(results, tacticName, DictGet(results, tacticName) \o group)
    ELSE DictSet(results, tacticName, group)

\* a commit that has no group to store for the first tactic label
commitTacticDropFirst(results, tacticName, group) ==
    DictSet(results, tacticName, IF results = <<>> THEN <<>> ELSE group)

\* line 78
commitTactic(results, tacticName, group) == DictSet(results, tacticName, group)

\* the group left in place, not cleared
staleGroup == tacticGroup

\* line 79
freshGroup == <<>>

\* lines 70-73: a chunk that contains "technique"
TechniqueStep ==
    /\ pc = "loop"
    /\ i < Len(cutData)
    /\ Classify(cutData[i + 1]) = "technique"
    /\ LET r == extractTechnique(cutData[i + 1])
       IN  IF r.raised
           THEN /\ pc' = "crashed"
                /\ error' = r.exc
                /\ UNCHANGED <<i, tacticGroup>>
           ELSE /\ tacticGroup' = DictSet(tacticGroup, r.val[1], r.val[2])
                /\ i' = i + 1
                /\ UNCHANGED <<pc, error>>
    /\ UNCHANGED <<rawData, text, cutResults, cutData, allResults, outFile>>

\* lines 75-79: a chunk that contains "tactic-label" and not "technique"
TacticLabelStep ==
    /\ pc = "loop"
    /\ i < Len(cutData)
    /\ Classify(cutData[i + 1]) = "tactic-label"
    /\ LET t == extractTactic(cutData[i + 1])
       IN  IF t.none
           THEN /\ pc' = "crashed"      \* None has no replace()
                /\ error' = "AttributeError"
                /\ UNCHANGED <<i, tacticGroup, allResults>>
           ELSE /\ allResults' = commitTactic(allResults, stripMicroObjective(t.val),
                                              tacticGroup)
                /\ tacticGroup' = freshGroup
                /\ i' = i + 1
                /\ UNCHANGED <<pc, error>>
    /\ UNCHANGED <<rawData, text, cutResults, cutData, outFile>>

\* lines 80-81
IrrelevantStep ==
    /\ pc = "loop"
    /\ i < Len(cutData)
    /\ Classify(cutData[i + 1]) = "irrelevant"
    /\ i' = i + 1
    /\ UNCHANGED <<pc, rawData, text, cutResults, cutData, allResults, tacticGroup,
                   outFile, error>>

\* lines 83-84: the file is opened (and truncated), then the tree is normalized
Normalize ==
    /\ pc = "loop"
    /\ i = Len(cutData)
    /\ outFile' = <<>>
    /\ LET r == postProcessing(allResults)
       IN  IF r.raised
           THEN /\ pc' = "crashed"
                /\ error' = r.exc
                /\ UNCHANGED allResults
           ELSE /\ allResults' = r.val
                /\ pc' = "write"
                /\ UNCHANGED error
    /\ UNCHANGED <<rawData, text, cutResults, cutData, i, tacticGroup>>

\* lines 85-88
Write ==
    /\ pc = "write"
    /\ outFile' = writeLines(allResults)
    /\ pc' = "done"
    /\ UNCHANGED <<rawData, text, cutResults, cutData, i, allResults, tacticGroup,
                   error>>

Next ==
    \/ Preprocess
    \/ CutStep
    \/ CutReturn
    \/ TechniqueStep
    \/ TacticLabelStep
    \/ IrrelevantStep
    \/ Normalize
    \/ Write

(***************************************************************************)
(* Input documents: group elements whose bodies are tspan elements.        *)
(***************************************************************************)
Span(label) == TspanOpen \o Gt \o label \o TspanClose \o Gt

GroupElement(attr, labels) ==
    GOpen \o Space \o attr \o Gt \o Concat([k \in 1..Len(labels) |-> Span(labels[k])])
          \o GClose

\* elements of every kind the traversal loop distinguishes
TechT1A    == GroupElement(Technique, << <<"T", "1", ":">>, <<"A">> >>)
TechT1B    == GroupElement(Technique, << <<"T", "1", " ", ":", " ", "B">> >>)
TechT11    == GroupElement(Technique, << <<"T", "1", ".", "1", ":", "C">> >>)
TechT111   == GroupElement(Technique, << <<"T", "1", ".", "1", ".", "1", ":", "D">> >>)
TechT2AB   == GroupElement(Technique, << <<"T", "2", ":", "A">>, <<":", "B">> >>)
TechNoColon == GroupElement(Technique, << <<"T", "3">> >>)
TechNoSpan == GroupElement(Technique, <<>>)
TacticX    == GroupElement(TacticLabel, << <<"X">> >>)
TacticXM   == GroupElement(TacticLabel, << <<"X">> \o MicroObjective >>)
TacticYM   == GroupElement(TacticLabel, << <<"Y">> \o MicroObjective >>)
TacticYMZ  == GroupElement(TacticLabel, << <<"Y">> \o MicroObjective \o <<" ", "Z">> >>)
TacticNoSpan == GroupElement(TacticLabel, <<>>)
OtherDefs  == GroupElement(<<"d", "e", "f", "s">>, <<>>)

\* documents that exercise the tree builder
Elements == {TechT1A, TechT1B, TechT11, TacticX, TacticYM, OtherDefs}

\* documents that exercise the field extractors
ExtractElements == {TechT1A, TechT2AB, TechNoColon, TechNoSpan, TacticX, TacticXM,
                    TacticYMZ, TacticNoSpan, OtherDefs}

\* documents that exercise the normalizer
NormElements == {TechT1A, TechT11, TechT111, TacticX, TacticYM, OtherDefs}

DocumentsOf(pool, n) == {Concat(es) : es \in UNION {[1..k -> pool] : k \in 0..n}}

Init == InitWith(DocumentsOf(Elements, MaxChunks))

Spec == Init /\ [][Next]_vars

NormInit == InitWith(DocumentsOf(NormElements, MaxNormChunks))

NormSpec == NormInit /\ [][Next]_vars

ExtractInit == InitWith(DocumentsOf(ExtractElements, MaxExtractChunks))

ExtractSpec == ExtractInit /\ [][Next]_vars

(***************************************************************************)
(* Vocabulary of the claims about the traversal loop: the chunk sequence   *)
(* seen as Technique(id, name), TacticLabel(t) and irrelevant chunks.      *)
(***************************************************************************)
Range(f) == {f[k] : k \in DOMAIN f}

MaxOf(S) == CHOOSE m \in S : \A n \in S : n <= m
MinOf(S) == CHOOSE m \in S : \A n \in S : m <= n

\* one chunk as the loop reads it
ViewOf(chunk) ==
    LET kind == Classify(chunk)
    IN  IF kind = "technique"
        THEN LET r == extractTechnique(chunk)
             IN  IF r.raised THEN [kind |-> "malformed"]
                 ELSE [kind |-> "technique", id |-> r.val[1], name |-> r.val[2]]
        ELSE IF kind = "tactic-label"
        THEN LET t == extractTactic(chunk)
             IN  IF t.none THEN [kind |-> "malformed"]
                 ELSE [kind |-> "tactic-label", tactic |-> stripMicroObjective(t.val)]
        ELSE [kind |-> "irrelevant"]

RECURSIVE ViewFrom(_, _)
ViewFrom(chunks, k) ==
    IF k > Len(chunks) THEN <<>> ELSE <<ViewOf(chunks[k])>> \o ViewFrom(chunks, k + 1)

\* the chunk sequence as classified chunks
View == ViewFrom(cutData, 1)

TechIdx(v)  == {j \in 1..Len(v) : v[j].kind = "technique"}
LabelIdx(v) == {k \in 1..Len(v) : v[k].kind = "tactic-label"}

\* the tactic label before chunk k, 0 when there is none
PrevLabel(v, k) ==
    LET before == {m \in LabelIdx(v) : m < k}
    IN  IF before = {} THEN 0 ELSE MaxOf(before)

\* the technique chunks between the previous tactic label and label k
Section(v, k) == {j \in TechIdx(v) : PrevLabel(v, k) < j /\ j < k}

\* label k is the last tactic label with its tactic name
LastOfName(v, k) == \A m \in LabelIdx(v) : m > k => v[m].tactic # v[k].tactic

\* the last tactic labels of each tactic name
LastLabels(v) == {k \in LabelIdx(v) : LastOfName(v, k)}

\* the technique chunks after the last tactic label
Trailing(v) == {j \in TechIdx(v) : \A k \in LabelIdx(v) : k < j}

\* the first tactic label, 0 when there is none
FirstLabel(v) == IF LabelIdx(v) = {} THEN 0 ELSE MinOf(LabelIdx(v))

\* the technique chunks before the first tactic label (all, when there is none)
BeforeFirstLabel(v) == {j \in TechIdx(v) : FirstLabel(v) = 0 \/ j < FirstLabel(v)}

\* the (tactic, id) pairs of a tree
PairsOf(results) ==
    UNION {{<<results[a][1], results[a][2][b][1]>> : b \in 1..Len(results[a][2])} :
              a \in 1..Len(results)}

\* the ids of a group
IdsOf(group) == {group[b][1] : b \in 1..Len(group)}

\* the name stored under (tactic, id)
NameIn(results, tactic, id) == DictGet(DictGet(results, tactic), id)

\* the traversal loop has consumed every chunk
LoopFinished == pc = "loop" /\ i = Len(cutData)
TreeComplete == LoopFinished \/ pc \in {"write", "done"}

\* the pairs of the sections closed by the labels ks
SectionPairs(v, ks) ==
    UNION {{<<v[k].tactic, v[j].id>> : j \in Section(v, k)} : k \in ks}

\* C1 as stated: the tree and the output hold, for every tactic label, the
\* ids of the technique chunks of its section paired with its name.
C1_CommitRuleEveryLabel ==
    LET v == View
    IN  /\ TreeComplete => PairsOf(allResults) = SectionPairs(v, LabelIdx(v))
        /\ pc = "done" => Len(outFile) = Cardinality(SectionPairs(v, LabelIdx(v)))

\* C1 amended: the tree holds exactly the pairs committed by the last tactic
\* label of each tactic name (a later label of the same name replaces the
\* group), a later duplicate id of a section overwrites the earlier name,
\* and the writer emits one line per pair of the tree once normalization
\* succeeded and no line when the run failed.
C1_CommitRuleLastLabel ==
    /\ TreeComplete =>
          LET v == View
              pairs == SectionPairs(v, LastLabels(v))
          IN  /\ PairsOf(allResults) = pairs
              /\ LoopFinished =>
                    \A k \in LastLabels(v) : \A j \in Section(v, k) :
                        NameIn(allResults, v[k].tactic, v[j].id)
                            = v[MaxOf({m \in Section(v, k) : v[m].id = v[j].id})].name
              /\ pc = "done" =>
                    /\ Len(outFile) = Cardinality(pairs)
                    /\ \A pr \in pairs :
                          tagLine(pr[1], NameIn(allResults, pr[1], pr[2]), pr[2])
                              \in Range(outFile)
    /\ pc = "crashed" => outFile = <<>>

\* C1 witness: a finished run that wrote a line, with a tactic name committed
\* twice, the first time with a non-empty section, and a duplicate id
C1_Witness ==
    /\ pc = "done"
    /\ outFile # <<>>
    /\ LET v == View
       IN  /\ \E k \in LabelIdx(v) : ~LastOfName(v, k) /\ Section(v, k) # {}
           /\ \E j \in TechIdx(v) : \E m \in TechIdx(v) : j < m /\ v[j].id = v[m].id

\* C2 as stated: a technique chunk before the first tactic label appears under
\* no tactic of the tree and gives no output line (ids that a later section
\* also holds are left out of the statement).
C2_LeadingTechniquesLost ==
    TreeComplete =>
        LET v == View
        IN  \A j \in BeforeFirstLabel(v) :
                (\A m \in TechIdx(v) \ BeforeFirstLabel(v) : v[m].id # v[j].id) =>
                    /\ \A a \in 1..Len(allResults) : v[j].id \notin IdsOf(allResults[a][2])
                    /\ pc = "done" => \A ln \in Range(outFile) :
                          ln # tagLine(v[FirstLabel(v)].tactic,
                                       v[MaxOf({m \in BeforeFirstLabel(v) : v[m].id = v[j].id})].name,
                                       v[j].id)

\* C2 amended: a technique chunk before the first tactic label is committed
\* under that first label: unless a later tactic label of the same name
\* replaces the group, its id is in the tree under that tactic and the
\* finished run wrote a line for it.
C2_LeadingTechniquesCommitted ==
    TreeComplete =>
        LET v == View
            first == FirstLabel(v)
        IN  (first # 0 /\ LastOfName(v, first)) =>
                \A j \in BeforeFirstLabel(v) :
                    /\ DictHas(allResults, v[first].tactic)
                    /\ DictHas(DictGet(allResults, v[first].tactic), v[j].id)
                    /\ pc = "done" =>
                          tagLine(v[first].tactic,
                                  NameIn(allResults, v[first].tactic, v[j].id),
                                  v[j].id) \in Range(outFile)

\* C2 witness: a finished run with a technique before the first tactic label
\* and a second tactic label of another name after it
C2_Witness ==
    /\ pc = "done"
    /\ Len(outFile) >= 1
    /\ LET v == View
       IN  /\ FirstLabel(v) # 0
           /\ BeforeFirstLabel(v) # {}
           /\ \E k \in LabelIdx(v) : v[k].tactic # v[FirstLabel(v)].tactic

\* C9: a technique chunk after the last tactic label is accumulated and never
\* committed (every pair of the tree comes from a section closed by a label,
\* the trailing ids stay in tacticGroup), a later label of the same tactic
\* name replaces the earlier group entirely, and the output has exactly one
\* line per pair of the tree.
C9_TrailingLostAndReplaced ==
    /\ TreeComplete =>
          LET v == View
          IN  /\ IdsOf(tacticGroup) = {v[j].id : j \in Trailing(v)}
              /\ \A pr \in PairsOf(allResults) :
                    \E k \in LabelIdx(v) : \E j \in Section(v, k) :
                        v[k].tactic = pr[1] /\ v[j].id = pr[2]
              /\ \A k \in LabelIdx(v) :
                    /\ DictHas(allResults, v[k].tactic)
                    /\ IdsOf(DictGet(allResults, v[k].tactic))
                         = {v[j].id : j \in Section(v,
                               MaxOf({m \in LabelIdx(v) : v[m].tactic = v[k].tactic}))}
    /\ pc = "done" => Len(outFile) = Cardinality(PairsOf(allResults))

\* C9 witness: a finished run with a technique after the last label whose id
\* is in no committed section, and a replaced non-empty earlier group
C9_Witness ==
    /\ pc = "done"
    /\ LET v == View
       IN  /\ \E j \in Trailing(v) : \A pr \in PairsOf(allResults) : pr[2] # v[j].id
           /\ \E k \in LabelIdx(v) : ~LastOfName(v, k) /\ Section(v, k) # {}

(***************************************************************************)
(* Claims about the normalizer.                                            *)
(***************************************************************************)
HasDot(key) == \E k \in 1..Len(key) : key[k] = "."

\* the portion of a dotted key before its first "."
BeforeFirstDot(key) ==
    SubSeq(key, 1, (CHOOSE k \in 1..Len(key) :
                       key[k] = "." /\ \A m \in 1..(k - 1) : key[m] # ".") - 1)

\* some group holds a dotted id whose prefix is not a key of that group
MissingParent(results) ==
    \E a \in 1..Len(results) : \E b \in 1..Len(results[a][2]) :
        /\ HasDot(results[a][2][b][1])
        /\ ~DictHas(results[a][2], BeforeFirstDot(results[a][2][b][1]))

\* the tree with every dotted entry rewritten once from the given tree
NormalizedOnce(results) ==
    [a \in 1..Len(results) |->
        <<results[a][1],
          [b \in 1..Len(results[a][2]) |->
              LET key == results[a][2][b][1]
                  name == results[a][2][b][2]
              IN  <<key,
                    IF HasDot(key)
                    THEN DictGet(results[a][2], BeforeFirstDot(key)) \o ColonColon \o name
                    ELSE name>>]>>]

\* C5 (step): when every dotted id has its prefix as a key of its group,
\* normalization succeeds and leaves the tree with each dotted entry
\* "{parentName}::{name}" built from the values before normalization, and
\* every other entry unchanged.
C5_NormalizeStep ==
    (LoopFinished /\ ~MissingParent(allResults)) =>
        (pc' = "write" /\ allResults' = NormalizedOnce(allResults))

\* C5: postProcessing rewrites every dotted entry exactly once from the
\* original parent value, without cascading, for ids with any number of dots
\* and any key order.
C5_NoCascade == [][C5_NormalizeStep]_vars

\* C5 witness: a normalized group in which an id with two dots comes before
\* an id with one dot and both come before their parent
C5_Witness ==
    /\ pc = "write"
    /\ \E a \in 1..Len(allResults) :
          LET g == allResults[a][2]
          IN  \E b1 \in 1..Len(g) : \E b2 \in 1..Len(g) : \E b3 \in 1..Len(g) :
                /\ b1 < b2 /\ b2 < b3
                /\ Len(Split(g[b1][1], Dot)) = 3
                /\ Len(Split(g[b2][1], Dot)) = 2
                /\ ~HasDot(g[b3][1])

\* C8: when a group of the completed tree holds a dotted id without its
\* parent, normalization never succeeds: the run ends with a KeyError and
\* has written no line.
C8_MissingParentFatal ==
    /\ pc \in {"write", "done"} => ~MissingParent(allResults)
    /\ (LoopFinished /\ MissingParent(allResults)) => ENABLED Normalize
    /\ pc = "crashed" => (outFile = <<>> /\ ~ENABLED Next)

\* C8 witness: the run failed in normalization on a tree with a missing
\* parent, in which another tactic group was complete
C8_Witness ==
    /\ pc = "crashed"
    /\ error = "KeyError"
    /\ MissingParent(allResults)
    /\ Len(allResults) >= 2

(***************************************************************************)
(* Claims about the field extractors, checked under ExtractSpec.           *)
(***************************************************************************)
\* the reconstructed label of a chunk that has a data line
LabelOf(chunk) == joinLines(cleanDataLines(chunk))

\* 1-based position of the first ":" of label
FirstColon(label) ==
    CHOOSE k \in 1..Len(label) : label[k] = ":" /\ \A m \in 1..(k - 1) : label[m] # ":"

HasColon(label) == \E k \in 1..Len(label) : label[k] = ":"

\* C4: after a technique chunk is consumed, the group maps the trimmed text
\* before the first ":" of the reconstructed label to the trimmed whole
\* remainder after that ":".
C4_SplitOnFirstColon ==
    (pc = "loop" /\ i >= 1 /\ Classify(cutData[i]) = "technique") =>
        LET label == LabelOf(cutData[i])
            idTag == Strip(SubSeq(label, 1, FirstColon(label) - 1))
            name  == Strip(SubSeq(label, FirstColon(label) + 1, Len(label)))
        IN  DictHas(tacticGroup, idTag) /\ DictGet(tacticGroup, idTag) = name

EndsWith(s, suffix) ==
    Len(s) >= Len(suffix) /\ SubSeq(s, Len(s) - Len(suffix) + 1, Len(s)) = suffix

\* C6: after a tactic-label chunk is consumed, the tree has the key that is
\* the extracted label without a trailing " Micro-objective", the label
\* itself when it does not end with it.
C6_TrailingSuffixOnly ==
    (pc = "loop" /\ i >= 1 /\ Classify(cutData[i]) = "tactic-label") =>
        LET label == extractTactic(cutData[i]).val
        IN  DictHas(allResults,
                    IF EndsWith(label, MicroObjective)
                    THEN SubSeq(label, 1, Len(label) - Len(MicroObjective))
                    ELSE label)

\* a technique chunk with no "<tspan" line or no ":" in its label
Malformed(chunk) ==
    /\ Classify(chunk) = "technique"
    /\ \/ ~Contains(chunk, TspanOpen)
       \/ ~HasColon(LabelOf(chunk))

\* C7 (step): the step that consumes a malformed technique chunk ends the run
\* with an IndexError and adds nothing to the group, the tree or the output.
C7_MalformedStep ==
    (pc = "loop" /\ i < Len(cutData) /\ Malformed(cutData[i + 1])) =>
        /\ pc' = "crashed"
        /\ error' = "IndexError"
        /\ UNCHANGED <<tacticGroup, allResults, outFile>>

\* C7 (state): a failed run takes no further step and has written nothing
C7_Aborted == pc = "crashed" => (~ENABLED Next /\ outFile = <<>>)

\* C7: extractTechnique fails on a technique chunk without a "<tspan" line or
\* without a ":" in its label, the failure aborts the run, and the chunk
\* adds no entry to any group.
C7_MalformedChunkFatal == [][C7_MalformedStep]_vars /\ []C7_Aborted

\* C7 witness: the run failed on a colon-less technique chunk after another
\* technique had been accumulated
C7_Witness ==
    /\ pc = "crashed"
    /\ error = "IndexError"
    /\ i < Len(cutData)
    /\ Malformed(cutData[i + 1])
    /\ Contains(cutData[i + 1], TspanOpen)
    /\ tacticGroup # <<>>

====
